---- MODULE Spec2Model ----
(***************************************************************************)
(* ADCS supervisor of src/adcsSSP.cpp: the mode state machine, the fault   *)
(* manager, the persisted record and the watchdog, one control cycle at a  *)
(* time.                                                                   *)
(*                                                                         *)
(* Units: angular velocity in 1/100 rad/s, power in 1/10 W, sun-vector     *)
(* error in 1/10 degree, the watchdog countdown in 1/10 s.                 *)
(***************************************************************************)
EXTENDS Integers, Sequences, FiniteSets, TLC

VARIABLES
    pc,                         \* position of main(): boot, a step of run_cycle, delay, hung
    current_mode,               \* current_state.current_mode
    mode_entry_time,            \* current_state.mode_entry_time
    angular_velocity,           \* current_state.angular_velocity
    power_level,                \* current_state.power_level
    previous_operational_mode,  \* the local of that name, as last assigned (lines 132, 166)
    nvm,                        \* the record held in non-volatile memory
    wdt,                        \* watchdog countdown: time since it was armed or refreshed
    now,                        \* the platform's time source
    sun_error,                  \* sun-vector error read by the transition step
    sensor_anomalous,           \* what check_sensors() answered in this cycle
    fault,                      \* the fault classified by manage_faults in this cycle
    cycle_start_mode,           \* mode when the cycle began
    transition_mode,            \* mode selected by check_state_transition in this cycle
    captured_mode,              \* mode that fault handling left to enter SAFE_MODE/FAULT_RECOVERY
    steps,                      \* what has returned since main() last reached the top
                                \* of its loop: the constructor or steps of run_cycle
    nvm_writes,                 \* calls of NonVolatileMemory::write in this cycle
    software_reset_run,         \* consecutive cycles, up to the last one handled, whose
                                \* fault called for a software (driver) reset
    boot_mode,                  \* mode the constructor left at the last boot
    entry_time_assigned         \* mode_entry_time was assigned since the last boot

vars == <<pc, current_mode, mode_entry_time, angular_velocity, power_level,
          previous_operational_mode, nvm, wdt, now, sun_error, sensor_anomalous,
          fault, cycle_start_mode, transition_mode, captured_mode, steps,
          nvm_writes, software_reset_run, boot_mode, entry_time_assigned>>

\* Bookkeeping that no step but the one that sets it touches.
history == <<nvm_writes, software_reset_run, boot_mode, entry_time_assigned>>

----------------------------------------------------------------------------
(* Bounds and program constants *)

\* The time source is followed up to MaxTime; one observed passage of time
\* lasts TickLength tenths of a second.
MaxTime == 2
TickLength == 8

\* Longest run of consecutive software-reset cycles that is counted.
MaxRun == 4

MAX_ANGULAR_RATE == 10
ESCALATION_THRESHOLD == 3
LOW_POWER_THRESHOLD == 40
SUN_TOLERANCE == 20
WDT_TIMEOUT == 16
TIME_WIDTH == 65536

ADCSMode == {"DETUMBLING", "SUN_ACQUISITION", "NOMINAL_POINTING", "SAFE_MODE",
             "FAULT_RECOVERY"}

FaultType == {"NONE", "HIGH_ANGULAR_RATE", "LOW_POWER", "SENSOR_ANOMALY", "CRITICAL",
              "SOFTWARE_RESET_REQUIRED"}

\* Readings the sensor collaborators can return.
ImuReadings ==
    {<<0, 0, 0>>, <<5, 5, 5>>, <<10, 10, 10>>, <<20, 0, 0>>, <<0, -20, 0>>, <<0, 0, 11>>}
PowerReadings == {35, 39, 40, 50}
SunErrors == {15, 25}
Times == 0..MaxTime

\* Values the time source can show at power-on: zero, or two short of the
\* range of get_current_time's 16-bit return type.
LateOrigin == TIME_WIDTH - 2
TimeOrigins == {0, LateOrigin}
Elapsed(t) == IF t >= LateOrigin THEN t - LateOrigin ELSE t

Abs(x) == IF x < 0 THEN -x ELSE x

ModeIndex(mode) ==
    CASE mode = "DETUMBLING" -> 0
      [] mode = "SUN_ACQUISITION" -> 1
      [] mode = "NOMINAL_POINTING" -> 2
      [] mode = "SAFE_MODE" -> 3
      [] mode = "FAULT_RECOVERY" -> 4

----------------------------------------------------------------------------
(* FaultManager *)

check_angular_rate(av) ==
    \/ Abs(av[1]) > MAX_ANGULAR_RATE
    \/ Abs(av[2]) > MAX_ANGULAR_RATE
    \/ Abs(av[3]) > MAX_ANGULAR_RATE

check_power_level(power) == power < LOW_POWER_THRESHOLD

\* check_faults testing the power level before the angular rate.
check_faults_power_first(av, power, anomalous) ==
    IF check_power_level(power) THEN "LOW_POWER"
    ELSE IF check_angular_rate(av) THEN "HIGH_ANGULAR_RATE"
    ELSE IF anomalous THEN "SENSOR_ANOMALY"
    ELSE "NONE"

\* check_sensors() is the sensor-consistency collaborator: its answer is an input.
check_faults(av, power, anomalous) ==
    IF check_angular_rate(av) THEN "HIGH_ANGULAR_RATE"
    ELSE IF check_power_level(power) THEN "LOW_POWER"
    ELSE IF anomalous THEN "SENSOR_ANOMALY"
    ELSE "NONE"

----------------------------------------------------------------------------
(* NonVolatileMemory *)

\* "the sum of all state parameters" (comment of is_corrupt)
Checksum(rec) ==
    ModeIndex(rec.current_mode) + rec.mode_entry_time
    + rec.angular_velocity[1] + rec.angular_velocity[2] + rec.angular_velocity[3]
    + rec.power_level + rec.timestamp

\* write embeds the checksum with the record
write(rec) == [rec EXCEPT !.checksum = Checksum(rec)]

\* The record save_persistent_state builds: the designated initializers set
\* current_mode and timestamp, every other member is zero-initialized.
save_persistent_state(mode, entry_time) ==
    write([current_mode |-> mode,
           mode_entry_time |-> 0,
           angular_velocity |-> <<0, 0, 0>>,
           power_level |-> 0,
           timestamp |-> entry_time,
           checksum |-> 0])

is_corrupt(rec) == rec.checksum # Checksum(rec)

is_state_safe(rec) ==
    /\ ~check_angular_rate(rec.angular_velocity)
    /\ ~check_power_level(rec.power_level)
    /\ rec.current_mode \notin {"SAFE_MODE", "FAULT_RECOVERY"}

\* Records the store can hold when the processor first boots: every mode, a
\* safe or an unsafe snapshot, a matching or a mismatching checksum.
Record(m, av, p, valid) ==
    LET rec == [current_mode |-> m, mode_entry_time |-> 0, angular_velocity |-> av,
                power_level |-> p, timestamp |-> 0, checksum |-> 0]
    IN  [rec EXCEPT !.checksum = IF valid THEN Checksum(rec) ELSE Checksum(rec) + 1]

InitialRecords ==
    UNION {{Record(m, <<0, 0, 0>>, 50, TRUE), Record(m, <<0, 0, 0>>, 50, FALSE),
            Record(m, <<20, 0, 0>>, 50, TRUE), Record(m, <<0, 0, 0>>, 35, TRUE)} :
           m \in ADCSMode}

----------------------------------------------------------------------------
(* StateMachine *)

get_current_time == now % TIME_WIDTH

is_angular_rate_stable(av) ==
    /\ Abs(av[1]) < MAX_ANGULAR_RATE
    /\ Abs(av[2]) < MAX_ANGULAR_RATE
    /\ Abs(av[3]) < MAX_ANGULAR_RATE

sun_vectors_aligned(err) == err <= SUN_TOLERANCE

power_restored(av, power) == power > LOW_POWER_THRESHOLD /\ ~check_angular_rate(av)

\* BootMode without the safety predicate's branch.
BootMode_unchecked(rec) ==
    IF is_corrupt(rec) THEN "SAFE_MODE" ELSE "DETUMBLING"

\* BootMode resuming the persisted mode of a valid, safe record.
BootMode_resume(rec) ==
    IF is_corrupt(rec) THEN "SAFE_MODE"
    ELSE IF ~is_state_safe(rec) THEN "SAFE_MODE"
    ELSE rec.current_mode

\* The mode the constructor leaves in current_state.current_mode.
BootMode(rec) ==
    IF is_corrupt(rec) THEN "SAFE_MODE"
    ELSE IF ~is_state_safe(rec) THEN "SAFE_MODE"
    ELSE "DETUMBLING"

\* evaluate_transition_conditions with the DETUMBLING case falling through
\* into the SUN_ACQUISITION case (its break missing).
evaluate_transition_conditions_fallthrough(mode, av, power, err, recovered) ==
    CASE mode = "DETUMBLING" ->
            IF is_angular_rate_stable(av) THEN "SUN_ACQUISITION"
            ELSE IF sun_vectors_aligned(err) THEN "NOMINAL_POINTING" ELSE mode
      [] mode = "SUN_ACQUISITION" ->
            IF sun_vectors_aligned(err) THEN "NOMINAL_POINTING" ELSE mode
      [] OTHER -> mode

\* evaluate_transition_conditions leaving NOMINAL_POINTING when power runs low.
evaluate_transition_conditions_nominal_exit(mode, av, power, err, recovered) ==
    CASE mode = "DETUMBLING" ->
            IF is_angular_rate_stable(av) THEN "SUN_ACQUISITION" ELSE mode
      [] mode = "SUN_ACQUISITION" ->
            IF sun_vectors_aligned(err) THEN "NOMINAL_POINTING" ELSE mode
      [] mode = "NOMINAL_POINTING" ->
            IF check_power_level(power) THEN "SAFE_MODE" ELSE mode
      [] OTHER -> mode

\* evaluate_transition_conditions resuming a remembered mode from SAFE_MODE.
evaluate_transition_conditions_resume(mode, av, power, err, recovered) ==
    CASE mode = "DETUMBLING" ->
            IF is_angular_rate_stable(av) THEN "SUN_ACQUISITION" ELSE mode
      [] mode = "SUN_ACQUISITION" ->
            IF sun_vectors_aligned(err) THEN "NOMINAL_POINTING" ELSE mode
      [] mode = "SAFE_MODE" ->
            IF power_restored(av, power) THEN "NOMINAL_POINTING" ELSE mode
      [] OTHER -> mode

\* previous_operational_mode is a local initialized from the current mode.
evaluate_transition_conditions(mode, av, power, err, recovered) ==
    LET prev == mode IN
    CASE mode = "DETUMBLING" ->
            IF is_angular_rate_stable(av) THEN "SUN_ACQUISITION" ELSE mode
      [] mode = "SUN_ACQUISITION" ->
            IF sun_vectors_aligned(err) THEN "NOMINAL_POINTING" ELSE mode
      [] mode = "NOMINAL_POINTING" -> mode
      [] mode = "SAFE_MODE" ->
            IF power_restored(av, power) THEN prev ELSE mode
      [] mode = "FAULT_RECOVERY" ->
            IF recovered THEN prev ELSE mode

\* The collaborator handle_fault calls for a fault.
FaultAction(f) ==
    CASE f = "HIGH_ANGULAR_RATE" -> "engage_magnetorquers"
      [] f = "LOW_POWER" -> "power_system_slowdown"
      [] f = "SENSOR_ANOMALY" -> "reset_sensor_array"
      [] f = "SOFTWARE_RESET_REQUIRED" -> "execute_software_reset"
      [] f = "CRITICAL" -> "execute_hardware_reset"
      [] OTHER -> "none"

\* The faults answered by reinitializing drivers in software, and the two
\* calls that do it.
SoftwareResetFaults == {"SENSOR_ANOMALY", "SOFTWARE_RESET_REQUIRED"}
SoftwareResets == {"reset_sensor_array", "execute_software_reset"}

\* Saves done by the behaviour of a mode: run_safe_mode calls
\* save_persistent_state, the other mode bodies do not.
SavesOfBehavior(mode) == IF mode = "SAFE_MODE" THEN 1 ELSE 0

\* handle_fault entering FAULT_RECOVERY on a sensor anomaly.
handle_fault_recovery(f, mode) ==
    CASE f = "HIGH_ANGULAR_RATE" -> "DETUMBLING"
      [] f = "LOW_POWER" -> "SAFE_MODE"
      [] f = "SENSOR_ANOMALY" -> "FAULT_RECOVERY"
      [] OTHER -> mode

\* handle_fault with the LOW_POWER case not assigning the mode.
handle_fault_no_safe_mode(f, mode) ==
    CASE f = "HIGH_ANGULAR_RATE" -> "DETUMBLING"
      [] OTHER -> mode

\* The mode handle_fault leaves for a fault.
handle_fault(f, mode) ==
    CASE f = "HIGH_ANGULAR_RATE" -> "DETUMBLING"
      [] f = "LOW_POWER" -> "SAFE_MODE"
      [] OTHER -> mode

\* run_cycle with manage_faults called before execute_mode_entry.
NextPc_faults_first(step) ==
    CASE step = "update_sensor_data" -> "check_state_transition"
      [] step = "check_state_transition" -> "manage_faults"
      [] step = "manage_faults" -> "execute_mode_entry"
      [] step = "execute_mode_entry" -> "check_for_software_reset"
      [] step = "check_for_software_reset" -> "check_for_hardware_reset"
      [] step = "check_for_hardware_reset" -> "refresh_watchdog"
      [] step = "refresh_watchdog" -> "delay"

\* run_cycle: the statement that follows each statement.
NextPc(step) ==
    CASE step = "update_sensor_data" -> "check_state_transition"
      [] step = "check_state_transition" -> "execute_mode_entry"
      [] step = "execute_mode_entry" -> "check_for_software_reset"
      [] step = "check_for_software_reset" -> "check_for_hardware_reset"
      [] step = "check_for_hardware_reset" -> "manage_faults"
      [] step = "manage_faults" -> "refresh_watchdog"
      [] step = "refresh_watchdog" -> "delay"

Operational == {"DETUMBLING", "SUN_ACQUISITION", "NOMINAL_POINTING"}
Exceptional == {"SAFE_MODE", "FAULT_RECOVERY"}

----------------------------------------------------------------------------
(* Initial state: power-on, before main() constructs the StateMachine *)

Init ==
    /\ pc = "boot"
    /\ nvm \in InitialRecords
    /\ current_mode = "DETUMBLING"
    /\ mode_entry_time = 0
    /\ angular_velocity = <<0, 0, 0>>
    /\ power_level = 0
    /\ previous_operational_mode = "DETUMBLING"
    /\ wdt = 0
    /\ now \in TimeOrigins
    /\ sun_error = 15
    /\ sensor_anomalous = FALSE
    /\ fault = "NONE"
    /\ cycle_start_mode = "DETUMBLING"
    /\ transition_mode = "DETUMBLING"
    /\ captured_mode = "NONE"
    /\ steps = <<>>
    /\ nvm_writes = 0
    /\ software_reset_run = 0
    /\ boot_mode = "NONE"
    /\ entry_time_assigned = FALSE

\* The watchdog has not expired: the processor is executing main().
Running == wdt < WDT_TIMEOUT

\* StateMachine::StateMachine. The value read_persistent_state() returns is
\* discarded, so the members the constructor does not assign are indeterminate;
\* is_corrupt and is_state_safe judge the record held in the store.
Construct ==
    /\ pc = "boot"
    /\ pc' = "update_sensor_data"
    /\ current_mode' = BootMode(nvm)
    /\ mode_entry_time' \in Times
    /\ angular_velocity' \in ImuReadings
    /\ power_level' \in PowerReadings
    /\ wdt' = 0
    /\ steps' = <<"StateMachine">>
    /\ sensor_anomalous' = FALSE
    /\ fault' = "NONE"
    /\ captured_mode' = "NONE"
    /\ cycle_start_mode' = BootMode(nvm)
    /\ transition_mode' = BootMode(nvm)
    /\ previous_operational_mode' = BootMode(nvm)
    /\ nvm_writes' = 0
    /\ software_reset_run' = 0
    /\ boot_mode' = BootMode(nvm)
    /\ entry_time_assigned' = FALSE
    /\ UNCHANGED <<nvm, now, sun_error>>

\* A step of run_cycle returns: control moves to the next statement.
Return(step) ==
    /\ pc = step
    /\ Running
    /\ pc' = NextPc(step)
    /\ steps' = IF step = "update_sensor_data" THEN <<step>> ELSE Append(steps, step)

update_sensor_data ==
    /\ Return("update_sensor_data")
    /\ angular_velocity' \in ImuReadings
    /\ power_level' \in PowerReadings
    /\ cycle_start_mode' = current_mode
    /\ transition_mode' = current_mode
    /\ sensor_anomalous' = FALSE
    /\ fault' = "NONE"
    /\ nvm_writes' = 0
    /\ UNCHANGED <<current_mode, mode_entry_time, previous_operational_mode, nvm, wdt,
                   now, sun_error, captured_mode, software_reset_run, boot_mode,
                   entry_time_assigned>>

\* On a change of mode: execute_mode_exit (empty), the assignments, then
\* execute_mode_entry(new_mode) and save_persistent_state(); whatever
\* run_safe_mode saved is overwritten by that last save of the same state.
\* sun_vectors_aligned() and fault_recovery_complete() read their collaborators.
check_state_transition ==
    /\ Return("check_state_transition")
    /\ \E err \in SunErrors, recovered \in BOOLEAN :
        LET new_mode == evaluate_transition_conditions(current_mode, angular_velocity,
                                                        power_level, err, recovered)
        IN  /\ sun_error' = IF current_mode = "SUN_ACQUISITION" THEN err ELSE sun_error
            /\ previous_operational_mode' = current_mode
            /\ transition_mode' = new_mode
            /\ current_mode' = new_mode
            /\ IF new_mode # current_mode
               THEN /\ mode_entry_time' = get_current_time
                    /\ nvm' = save_persistent_state(new_mode, get_current_time)
                    /\ nvm_writes' = nvm_writes + SavesOfBehavior(new_mode) + 1
                    /\ entry_time_assigned' = TRUE
               ELSE UNCHANGED <<mode_entry_time, nvm, nvm_writes, entry_time_assigned>>
            /\ captured_mode' = IF new_mode \in Exceptional THEN captured_mode ELSE "NONE"
    /\ UNCHANGED <<angular_velocity, power_level, wdt, now, sensor_anomalous, fault,
                   cycle_start_mode, software_reset_run, boot_mode>>

\* execute_state_behavior: run_safe_mode saves the state, the other bodies do not.
execute_mode_entry ==
    /\ Return("execute_mode_entry")
    /\ nvm' = IF SavesOfBehavior(current_mode) > 0
              THEN save_persistent_state(current_mode, mode_entry_time)
              ELSE nvm
    /\ nvm_writes' = nvm_writes + SavesOfBehavior(current_mode)
    /\ UNCHANGED <<current_mode, mode_entry_time, angular_velocity, power_level,
                   previous_operational_mode, wdt, now, sun_error, sensor_anomalous, fault,
                   cycle_start_mode, transition_mode, captured_mode, software_reset_run,
                   boot_mode, entry_time_assigned>>

check_for_software_reset ==
    /\ Return("check_for_software_reset")
    /\ UNCHANGED <<current_mode, mode_entry_time, angular_velocity, power_level,
                   previous_operational_mode, nvm, wdt, now, sun_error, sensor_anomalous, fault,
                   cycle_start_mode, transition_mode, captured_mode, history>>

check_for_hardware_reset ==
    /\ Return("check_for_hardware_reset")
    /\ UNCHANGED <<current_mode, mode_entry_time, angular_velocity, power_level,
                   previous_operational_mode, nvm, wdt, now, sun_error, sensor_anomalous, fault,
                   cycle_start_mode, transition_mode, captured_mode, history>>

\* handle_fault copies the mode into its local previous_operational_mode
\* and then assigns the mode; it neither sets mode_entry_time nor saves.
manage_faults ==
    /\ Return("manage_faults")
    /\ \E anomalous \in BOOLEAN :
        LET f == check_faults(angular_velocity, power_level, anomalous)
            new_mode == IF f # "NONE" THEN handle_fault(f, current_mode) ELSE current_mode
        IN  /\ fault' = f
            /\ sensor_anomalous' = (anomalous /\ f \in {"SENSOR_ANOMALY", "NONE"})
            /\ current_mode' = new_mode
            /\ previous_operational_mode' =
                   IF f # "NONE" THEN current_mode ELSE previous_operational_mode
            /\ captured_mode' =
                   IF new_mode \notin Exceptional THEN "NONE"
                   ELSE IF current_mode \in Operational THEN current_mode
                   ELSE captured_mode
            /\ software_reset_run' =
                   IF f \in SoftwareResetFaults
                   THEN (IF software_reset_run < MaxRun THEN software_reset_run + 1
                         ELSE MaxRun)
                   ELSE 0
    /\ UNCHANGED <<mode_entry_time, angular_velocity, power_level, nvm, wdt, now,
                   sun_error, cycle_start_mode, transition_mode, nvm_writes, boot_mode,
                   entry_time_assigned>>

refresh_watchdog ==
    /\ Return("refresh_watchdog")
    /\ wdt' = 0
    /\ UNCHANGED <<current_mode, mode_entry_time, angular_velocity, power_level,
                   previous_operational_mode, nvm, now, sun_error, sensor_anomalous, fault,
                   cycle_start_mode, transition_mode, captured_mode, history>>

\* delay(main_loop_delay_period) returns and the loop calls run_cycle again.
delay ==
    /\ pc = "delay"
    /\ Running
    /\ pc' = "update_sensor_data"
    /\ steps' = <<>>
    /\ UNCHANGED <<current_mode, mode_entry_time, angular_velocity, power_level,
                   previous_operational_mode, nvm, wdt, now, sun_error, sensor_anomalous,
                   fault, cycle_start_mode, transition_mode, captured_mode, history>>

\* A step of run_cycle gets stuck in a collaborator and never returns.
Hang ==
    /\ pc \in {"update_sensor_data", "check_state_transition", "execute_mode_entry",
              "check_for_software_reset", "check_for_hardware_reset", "manage_faults"}
    /\ Running
    /\ pc' = "hung"
    /\ UNCHANGED <<current_mode, mode_entry_time, angular_velocity, power_level,
                   previous_operational_mode, nvm, wdt, now, sun_error, sensor_anomalous, fault,
                   cycle_start_mode, transition_mode, captured_mode, steps, history>>

\* Time passes while main() waits in delay() or is stuck; the countdown runs.
Tick ==
    /\ pc \in {"delay", "hung"}
    /\ Running
    /\ wdt' = wdt + TickLength
    /\ now' = IF Elapsed(now) < MaxTime THEN now + 1 ELSE now
    /\ UNCHANGED <<pc, current_mode, mode_entry_time, angular_velocity, power_level,
                   previous_operational_mode, nvm, sun_error, sensor_anomalous, fault,
                   cycle_start_mode, transition_mode, captured_mode, steps, history>>

\* A watchdog that fires one tick after its timeout.
Expired_late == wdt > WDT_TIMEOUT

\* The countdown expired without a refresh: the platform restarts main().
Expired == wdt >= WDT_TIMEOUT

\* Only the non-volatile record and the time source survive the restart.
WatchdogReset ==
    /\ Expired
    /\ pc' = "boot"
    /\ wdt' = 0
    /\ current_mode' = "DETUMBLING"
    /\ mode_entry_time' = 0
    /\ angular_velocity' = <<0, 0, 0>>
    /\ power_level' = 0
    /\ previous_operational_mode' = "DETUMBLING"
    /\ sun_error' = 15
    /\ sensor_anomalous' = FALSE
    /\ fault' = "NONE"
    /\ cycle_start_mode' = "DETUMBLING"
    /\ transition_mode' = "DETUMBLING"
    /\ captured_mode' = "NONE"
    /\ nvm_writes' = 0
    /\ software_reset_run' = 0
    /\ boot_mode' = "NONE"
    /\ entry_time_assigned' = FALSE
    /\ UNCHANGED <<nvm, now, steps>>

Next ==
    \/ Construct
    \/ update_sensor_data
    \/ check_state_transition
    \/ execute_mode_entry
    \/ check_for_software_reset
    \/ check_for_hardware_reset
    \/ manage_faults
    \/ refresh_watchdog
    \/ delay
    \/ Hang
    \/ Tick
    \/ WatchdogReset

Spec == Init /\ [][Next]_vars

\* The fair specifications follow the runs whose time source starts at zero.
LiveInit == Init /\ now = 0

LiveSpec ==
    LiveInit /\ [][Next]_vars /\ WF_vars(Tick) /\ WF_vars(WatchdogReset) /\ WF_vars(Construct)

\* main() keeps calling run_cycle: every statement that can return does.
CycleSpec ==
    /\ LiveInit /\ [][Next]_vars
    /\ WF_vars(Construct) /\ WF_vars(WatchdogReset)
    /\ WF_vars(update_sensor_data) /\ WF_vars(check_state_transition)
    /\ WF_vars(execute_mode_entry) /\ WF_vars(check_for_software_reset)
    /\ WF_vars(check_for_hardware_reset) /\ WF_vars(manage_faults)
    /\ WF_vars(refresh_watchdog) /\ WF_vars(delay)

----------------------------------------------------------------------------
(* Properties *)

\* The constructor has just returned: run_cycle has not been called yet.
JustBooted == pc = "update_sensor_data" /\ steps = <<"StateMachine">>

\* The transition step of the running cycle has just returned.
AfterTransition == pc = "execute_mode_entry"

\* The cycle has reached its watchdog refresh: fault handling has returned.
AtCycleEnd == pc \in {"refresh_watchdog", "delay"}

ExceedsRate(av) == \E i \in 1..3 : Abs(av[i]) > MAX_ANGULAR_RATE

C3_CycleOrdering ==
    LET order == <<"update_sensor_data", "check_state_transition", "execute_mode_entry",
                   "check_for_software_reset", "check_for_hardware_reset",
                   "manage_faults", "refresh_watchdog">>
    IN  /\ steps # <<"StateMachine">> =>
              /\ Len(steps) <= Len(order)
              /\ \A i \in 1..Len(steps) : steps[i] = order[i]
        /\ pc = "delay" => steps = order
        /\ pc = "hung" => \A i \in 1..Len(steps) : steps[i] # "refresh_watchdog"
        /\ pc = "refresh_watchdog" => steps = SubSeq(order, 1, 6)

C3_Witness ==
    /\ pc = "delay"
    /\ Len(steps) = 7
    /\ steps[3] = "execute_mode_entry"
    /\ steps[6] = "manage_faults"
    /\ steps[7] = "refresh_watchdog"
    /\ fault = "LOW_POWER"

\* C4: a cycle that hangs leads to a reset and to the boot path, which ends in
\* SAFE_MODE or DETUMBLING; a reset is forced only when the countdown reached
\* the timeout without a refresh.
C4_WatchdogLiveness ==
    /\ (pc = "hung") ~> (JustBooted /\ current_mode \in {"SAFE_MODE", "DETUMBLING"})
    /\ [][(pc # "boot" /\ pc' = "boot") => wdt >= WDT_TIMEOUT]_vars

\* The watchdog restarted a cycle that hung after its transition step.
C4_Witness ==
    /\ pc = "boot"
    /\ steps = <<"update_sensor_data", "check_state_transition">>
    /\ now > 0

\* C5: check_faults returns HIGH_ANGULAR_RATE when an axis exceeds the rate
\* threshold, else LOW_POWER when power is below the threshold, else
\* SENSOR_ANOMALY when the sensor check reports anomalous, else NONE.
C5_FaultPriority ==
    AtCycleEnd =>
        fault = IF ExceedsRate(angular_velocity) THEN "HIGH_ANGULAR_RATE"
                ELSE IF power_level < LOW_POWER_THRESHOLD THEN "LOW_POWER"
                ELSE IF sensor_anomalous THEN "SENSOR_ANOMALY"
                ELSE "NONE"

C5_Witness ==
    /\ AtCycleEnd
    /\ angular_velocity = <<20, 0, 0>>
    /\ power_level = 35
    /\ fault = "HIGH_ANGULAR_RATE"

\* C6: at the end of a cycle the mode is DETUMBLING if the sensed rate
\* exceeds the threshold, else SAFE_MODE if the sensed power is below the
\* threshold; with fault SENSOR_ANOMALY, SOFTWARE_RESET_REQUIRED or NONE it is
\* the mode the transition step selected.
C6_FaultHandlingResult ==
    AtCycleEnd =>
        /\ ExceedsRate(angular_velocity) => current_mode = "DETUMBLING"
        /\ (~ExceedsRate(angular_velocity) /\ power_level < LOW_POWER_THRESHOLD)
              => current_mode = "SAFE_MODE"
        /\ fault \in {"SENSOR_ANOMALY", "SOFTWARE_RESET_REQUIRED", "NONE"}
              => current_mode = transition_mode

C6_Witness ==
    /\ AtCycleEnd
    /\ transition_mode = "NOMINAL_POINTING"
    /\ power_level = 39
    /\ ~ExceedsRate(angular_velocity)
    /\ current_mode = "SAFE_MODE"

\* C7: after fault handling forced SAFE_MODE or FAULT_RECOVERY from an
\* operational mode M, the previous_operational_mode that the exit
\* evaluations of the exceptional mode use equals M.
C7_PreviousModeCapture ==
    [][(/\ pc = "check_state_transition"
        /\ pc' = "execute_mode_entry"
        /\ current_mode \in Exceptional
        /\ captured_mode \in Operational)
       => previous_operational_mode' = captured_mode]_vars

\* C8: once SAFE_MODE was entered from NOMINAL_POINTING by a LOW_POWER fault,
\* the transition step of a cycle with power restored and a safe rate changes
\* the mode back to NOMINAL_POINTING.
C8_SafeModeResume ==
    [][(/\ pc = "check_state_transition"
        /\ pc' = "execute_mode_entry"
        /\ current_mode = "SAFE_MODE"
        /\ captured_mode = "NOMINAL_POINTING"
        /\ power_level > LOW_POWER_THRESHOLD
        /\ ~ExceedsRate(angular_velocity))
       => current_mode' = "NOMINAL_POINTING"]_vars

\* C9: the transition step takes DETUMBLING to SUN_ACQUISITION exactly when
\* the rate is stable on all three axes, SUN_ACQUISITION to NOMINAL_POINTING
\* exactly when the sun-vector error is within tolerance, and never advances
\* more than one mode.
C9_ForwardTransitions ==
    AfterTransition =>
        /\ cycle_start_mode = "DETUMBLING" =>
              /\ current_mode \in {"DETUMBLING", "SUN_ACQUISITION"}
              /\ current_mode = "SUN_ACQUISITION"
                    <=> \A i \in 1..3 : Abs(angular_velocity[i]) < MAX_ANGULAR_RATE
        /\ cycle_start_mode = "SUN_ACQUISITION" =>
              /\ current_mode \in {"SUN_ACQUISITION", "NOMINAL_POINTING"}
              /\ current_mode = "NOMINAL_POINTING" <=> sun_error <= SUN_TOLERANCE

C9_Witness ==
    /\ AfterTransition
    /\ cycle_start_mode = "DETUMBLING"
    /\ angular_velocity = <<5, 5, 5>>
    /\ sun_error = 15
    /\ current_mode = "SUN_ACQUISITION"

\* C10: a cycle that starts in NOMINAL_POINTING leaves it only through the
\* handling of a HIGH_ANGULAR_RATE or LOW_POWER fault; the transition step
\* never changes it.
C10_NoAutonomousExit ==
    cycle_start_mode = "NOMINAL_POINTING" =>
        /\ pc \in {"execute_mode_entry", "check_for_software_reset",
                    "check_for_hardware_reset", "manage_faults"}
              => current_mode = "NOMINAL_POINTING"
        /\ (AtCycleEnd /\ current_mode # "NOMINAL_POINTING")
              => fault \in {"HIGH_ANGULAR_RATE", "LOW_POWER"}

C10_Witness ==
    /\ AtCycleEnd
    /\ cycle_start_mode = "NOMINAL_POINTING"
    /\ fault = "SENSOR_ANOMALY"
    /\ current_mode = "NOMINAL_POINTING"

\* Fault handling has not run yet in the cycle, the transition step has.
BeforeFaults ==
    pc \in {"execute_mode_entry", "check_for_software_reset", "check_for_hardware_reset",
            "manage_faults"}

\* C11: in a run of consecutive cycles whose fault calls for a software
\* reset, the first three perform a software reset and the 4th requests a
\* hardware reset instead.
C11_EscalationThreshold ==
    AtCycleEnd =>
        /\ software_reset_run \in 1..ESCALATION_THRESHOLD
              => FaultAction(fault) \in SoftwareResets
        /\ software_reset_run = ESCALATION_THRESHOLD + 1
              => FaultAction(fault) = "execute_hardware_reset"

\* C12: consecutive_software_reset_count, held in the program's memory and
\* in the persisted record, increases by one in every cycle whose fault is
\* SENSOR_ANOMALY or SOFTWARE_RESET_REQUIRED: handling such a fault changes
\* what the program holds.
C12_ResetCounterBookkeeping ==
    [][(/\ pc = "manage_faults"
        /\ pc' = "refresh_watchdog"
        /\ fault' \in SoftwareResetFaults)
       => <<current_mode, mode_entry_time, angular_velocity, power_level, nvm>>'
            # <<current_mode, mode_entry_time, angular_velocity, power_level, nvm>>]_vars

\* C13: a cycle in which the mode never changes writes nothing to the
\* non-volatile store.
C13_WriteOnTransitionOnly ==
    (/\ AtCycleEnd
     /\ transition_mode = cycle_start_mode
     /\ current_mode = cycle_start_mode)
    => nvm_writes = 0

\* C14: at the end of a cycle in which the mode changed, by the transition
\* step or by fault handling, the persisted mode equals the mode in memory.
C14_ModeChangePersisted ==
    (AtCycleEnd /\ (transition_mode # cycle_start_mode \/ current_mode # transition_mode))
    => nvm.current_mode = current_mode

\* C15: the record read back after save_persistent_state has the mode,
\* mode_entry_time, angular_velocity and power_level of the state that was
\* saved, and a checksum that matches its fields.
C15_ChecksumRoundTrip ==
    (BeforeFaults /\ nvm_writes > 0) =>
        /\ nvm.current_mode = current_mode
        /\ nvm.mode_entry_time = mode_entry_time
        /\ nvm.angular_velocity = angular_velocity
        /\ nvm.power_level = power_level
        /\ nvm.checksum = Checksum(nvm)

\* C16: every change of mode inside a cycle, by the transition step or by
\* fault handling, sets mode_entry_time to the time read then, and a step
\* that does not change the mode leaves mode_entry_time alone.
C16_EntryTimeTracksModeEntry ==
    [][(pc # "boot" /\ pc' # "boot") =>
         /\ current_mode' # current_mode => mode_entry_time' = get_current_time
         /\ current_mode' = current_mode => mode_entry_time' = mode_entry_time]_vars

\* C17: each value assigned to mode_entry_time is at least the value
\* assigned before it, also once the time source has passed 65535.
C17_EntryTimeNonDecreasing ==
    [][(entry_time_assigned /\ pc # "boot" /\ pc' # "boot")
       => mode_entry_time' >= mode_entry_time]_vars

GoodConditions ==
    /\ \A i \in 1..3 : Abs(angular_velocity[i]) < MAX_ANGULAR_RATE
    /\ sun_error <= SUN_TOLERANCE
    /\ power_level >= LOW_POWER_THRESHOLD
    /\ ~sensor_anomalous
    /\ fault = "NONE"

\* C20: after a boot into DETUMBLING, if from some cycle on the conditions
\* are good and cycles keep running, the mode eventually is NOMINAL_POINTING
\* and stays so.
C20_ProgressToNominal ==
    <>[](boot_mode = "DETUMBLING" /\ pc \notin {"boot", "hung"} /\ GoodConditions)
        => <>[](current_mode = "NOMINAL_POINTING")
====
